---- MODULE Spec2Model ----
(***************************************************************************)
(* A model of tflite_infer (src/main.rs): the label-file loader            *)
(* load_labels and the detection pipeline of main.                         *)
(*                                                                         *)
(* Text is a sequence of one-character strings.  An f32 is an integer      *)
(* number of tenths (0.5 is 5, 5.7 is 57, -1.5 is -15) or NaN.             *)
(***************************************************************************)
EXTENDS Integers, Sequences, FiniteSets

VARIABLES
    \* load_labels (lines 60-74), run on its own
    lfile,      \* the label file: whether it opens, and the items its lines() yields
    lpc,        \* "open" | "lines" | "returned"
    lpos,       \* number of items taken from lines() so far
    ltable,     \* the local BTreeMap `labels`
    lresult,    \* the Result load_labels returned
    \* main (lines 76-122)
    args,       \* Args: label (Option of a label file), image ("-" or a path)
    model,      \* what the model file holds: the session the engine builds from it
    pc,         \* the stage main is about to run
    exit,       \* "running" | "Ok" | an Error variant | "panic"
    labels,     \* Option<BTreeMap<u32, String>>
    size,       \* <<input_width, input_height>> once the shape was looked up
    img,        \* length of the resized RGB buffer once the image was decoded
    classes, scores, count,   \* the output tensors read after invoke
    i,          \* the reporter loop's index
    stdout,     \* the lines printed so far
    printed,    \* the loop index each of those lines was printed at
    stdinRead,  \* standard input was read to its end
    imageOpened,\* the image file was opened
    invoked,    \* interpreter.invoke() was called
    trace       \* the stages run so far, in order

lvars == <<lfile, lpc, lpos, ltable, lresult>>
mvars == <<args, model, pc, exit, labels, size, img, classes, scores, count, i,
           stdout, printed, stdinRead, imageOpened, invoked, trace>>
vars == <<lfile, lpc, lpos, ltable, lresult,
          args, model, pc, exit, labels, size, img, classes, scores, count, i,
          stdout, printed, stdinRead, imageOpened, invoked, trace>>

\* ---------------------------------------------------------------- bounds

\* Most lines in a label file.
MaxLines == 3
\* Capacity of the class and score output arrays.
MaxDet == 2

\* ------------------------------------------------------------------ text

None == [some |-> FALSE]
Some(v) == [some |-> TRUE, val |-> v]

IsWhitespace(c) == c \in {" ", "\t"}

IsDigit(c) == c \in {"0", "1", "2", "3", "4", "5", "6", "7", "8", "9"}

DigitVal(c) ==
    CASE c = "0" -> 0 [] c = "1" -> 1 [] c = "2" -> 2 [] c = "3" -> 3
      [] c = "4" -> 4 [] c = "5" -> 5 [] c = "6" -> 6 [] c = "7" -> 7
      [] c = "8" -> 8 [] c = "9" -> 9

DigitChar(d) ==
    CASE d = 0 -> "0" [] d = 1 -> "1" [] d = 2 -> "2" [] d = 3 -> "3"
      [] d = 4 -> "4" [] d = 5 -> "5" [] d = 6 -> "6" [] d = 7 -> "7"
      [] d = 8 -> "8" [] d = 9 -> "9"

\* A u32 is <<hi, lo>>, two 16-bit halves, value hi * 2^16 + lo: the full
\* 32-bit range, in numbers every one of which stays far below 2^31.
Half == 2^16
U32(n) == <<n \div Half, n % Half>>
U32Max == <<Half - 1, Half - 1>>

\* v * 10 + d, checked as parse's checked_mul and checked_add are.
MulAdd10(v, d) ==
    LET lo == v[2] * 10 + d
        hi == v[1] * 10 + lo \div Half IN
    IF hi >= Half THEN None ELSE Some(<<hi, lo % Half>>)

Div10(v) == <<v[1] \div 10, ((v[1] % 10) * Half + v[2]) \div 10>>
Mod10(v) == (((v[1] % 10) * Half + v[2])) % 10

\* str::trim: drop leading and trailing whitespace.
RECURSIVE TrimStart(_)
TrimStart(s) ==
    IF s # <<>> /\ IsWhitespace(Head(s)) THEN TrimStart(Tail(s)) ELSE s

RECURSIVE TrimEnd(_)
TrimEnd(s) ==
    IF s # <<>> /\ IsWhitespace(s[Len(s)])
    THEN TrimEnd(SubSeq(s, 1, Len(s) - 1)) ELSE s

Trim(s) == TrimEnd(TrimStart(s))

\* line.split_once(char::is_whitespace): cut at the first whitespace character.
SplitOnce(line) ==
    LET ws == {k \in 1..Len(line) : IsWhitespace(line[k])} IN
    IF ws = {} THEN None
    ELSE LET k == CHOOSE m \in ws : \A n \in ws : m <= n IN
         Some([key |-> SubSeq(line, 1, k - 1),
               value |-> SubSeq(line, k + 1, Len(line))])

\* str::parse::<u32>: an optional leading "+", then one or more decimal
\* digits whose value fits in 32 bits; anything else is a ParseIntError.
RECURSIVE ParseDigits(_, _)
ParseDigits(ds, acc) ==
    IF ds = <<>> THEN Some(acc)
    ELSE IF ~IsDigit(Head(ds)) THEN None
    ELSE LET n == MulAdd10(acc, DigitVal(Head(ds))) IN
         IF ~n.some THEN None ELSE ParseDigits(Tail(ds), n.val)

ParseU32(s) ==
    IF s = <<>> THEN None
    ELSE LET body == IF Head(s) = "+" THEN Tail(s) ELSE s IN
         IF body = <<>> THEN None ELSE ParseDigits(body, U32(0))

\* u32::to_string: the decimal digits, no sign, no leading zero.
RECURSIVE ToString(_)
ToString(n) ==
    IF n[1] = 0 /\ n[2] < 10 THEN <<DigitChar(n[2])>>
    ELSE ToString(Div10(n)) \o <<DigitChar(Mod10(n))>>

\* An f32: a number of tenths, a NaN, or an infinity.
F(v) == [k |-> "num", v |-> v]
NaN == [k |-> "nan", v |-> 0]
Inf == [k |-> "inf", v |-> 1]

\* x >= t for f32: false whenever x is a NaN.
Ge(x, t) ==
    CASE x.k = "nan" -> FALSE
      [] x.k = "inf" -> x.v > 0
      [] OTHER -> x.v >= t

\* `x as u32`: towards zero, saturating at the ends, NaN to 0.
F32AsU32(x) ==
    CASE x.k = "nan" -> U32(0)
      [] x.k = "inf" -> IF x.v > 0 THEN U32Max ELSE U32(0)
      [] OTHER -> IF x.v < 0 THEN U32(0) ELSE U32(x.v \div 10)

\* ------------------------------------------------------------ label files

\* BTreeMap<u32, String> as a function on its keys.
EmptyMap == [k \in {} |-> <<>>]

\* Insert as entry(key).or_insert(value) would do it: a key keeps its first value.
InsertKeepsFirst(t, key, value) ==
    [k \in DOMAIN t \cup {key} |-> IF k \in DOMAIN t THEN t[k] ELSE value]

\* BTreeMap::insert: the new value replaces the one the key had.
Insert(t, key, value) ==
    [k \in DOMAIN t \cup {key} |-> IF k = key THEN value ELSE t[k]]

\* The loop body without the is_empty test of line 68.
LabelStepKeepsEmpty(t, line) ==
    LET kv == SplitOnce(line) IN
    IF ~kv.some THEN [err |-> FALSE, table |-> t]
    ELSE LET key == ParseU32(Trim(kv.val.key))
             value == Trim(kv.val.value) IN
         IF ~key.some THEN [err |-> TRUE, table |-> t]
         ELSE [err |-> FALSE, table |-> Insert(t, key.val, value)]

\* The loop body with a malformed key skipped instead of returned through `?`.
LabelStepSkipsMalformed(t, line) ==
    LET kv == SplitOnce(line) IN
    IF ~kv.some THEN [err |-> FALSE, table |-> t]
    ELSE LET key == ParseU32(Trim(kv.val.key))
             value == Trim(kv.val.value) IN
         IF ~key.some THEN [err |-> FALSE, table |-> t]
         ELSE IF value # <<>>
              THEN [err |-> FALSE, table |-> Insert(t, key.val, value)]
              ELSE [err |-> FALSE, table |-> t]

\* One round of the loop body, lines 65-71, on a line already read: the new
\* table, or the ParseIntError that `?` returns from load_labels.
LabelStep(t, line) ==
    LET kv == SplitOnce(line) IN
    IF ~kv.some THEN [err |-> FALSE, table |-> t]
    ELSE LET key == ParseU32(Trim(kv.val.key))
             value == Trim(kv.val.value) IN
         IF ~key.some THEN [err |-> TRUE, table |-> t]
         ELSE IF value # <<>>
              THEN [err |-> FALSE, table |-> Insert(t, key.val, value)]
              ELSE [err |-> FALSE, table |-> t]

\* What lines() yields: a line, or an io::Error (a failed read, bytes that are
\* not UTF-8).
Line(l) == [ok |-> TRUE, line |-> l]
ReadErr == [ok |-> FALSE, line |-> <<>>]

SampleLines == {
    <<"5", " ", "c", "a", "t">>,
    <<"9", "\t", "d", "o", "g">>,
    <<"5", " ", " ", "o", "x", " ">>,
    <<"0", "5", " ", "o", "x">>,
    <<"+", "9", " ", "a", " ", "b">>,
    <<"c", "a", "t">>,
    <<>>,
    <<"5", " ">>,
    <<"x", " ">>,
    <<"x", " ", "c", "a", "t">>,
    <<" ", "5", " ", "c", "a", "t">>,
    <<"-", "1", " ", "a">>,
    <<"4", "2", "9", "4", "9", "6", "7", "2", "9", "6", " ", "a">> }

Items == {Line(l) : l \in SampleLines} \cup {ReadErr}

RECURSIVE SeqsUpTo(_, _)
SeqsUpTo(S, n) ==
    IF n = 0 THEN {<<>>}
    ELSE LET shorter == SeqsUpTo(S, n - 1) IN
         shorter \cup {Append(s, x) : s \in {t \in shorter : Len(t) = n - 1}, x \in S}

LabelFiles ==
    {[opens |-> FALSE, items |-> <<>>]}
    \cup {[opens |-> TRUE, items |-> its] : its \in SeqsUpTo(Items, MaxLines)}

Pending == [kind |-> "Pending", table |-> EmptyMap]
OkResult(t) == [kind |-> "Ok", table |-> t]
ErrResult(kind) == [kind |-> kind, table |-> EmptyMap]

\* load_labels, lines 61-62: create the table, open the file.
Open ==
    /\ lpc = "open"
    /\ ltable' = EmptyMap
    /\ IF lfile.opens
       THEN /\ lpc' = "lines"
            /\ lresult' = lresult
       ELSE /\ lpc' = "returned"
            /\ lresult' = ErrResult("IOError")
    /\ UNCHANGED <<lfile, lpos>>
    /\ UNCHANGED mvars

\* load_labels, lines 63-72: one round of the for loop.
NextLine ==
    /\ lpc = "lines"
    /\ lpos < Len(lfile.items)
    /\ lpos' = lpos + 1
    /\ LET item == lfile.items[lpos + 1] IN
       IF ~item.ok
       THEN /\ lpc' = "returned"
            /\ lresult' = ErrResult("IOError")
            /\ ltable' = ltable
       ELSE LET r == LabelStep(ltable, item.line) IN
            IF r.err
            THEN /\ lpc' = "returned"
                 /\ lresult' = ErrResult("InvalidLabel")
                 /\ ltable' = ltable
            ELSE /\ lpc' = "lines"
                 /\ lresult' = lresult
                 /\ ltable' = r.table
    /\ UNCHANGED lfile
    /\ UNCHANGED mvars

\* load_labels, line 73: the iterator is exhausted, Ok(labels).
Return ==
    /\ lpc = "lines"
    /\ lpos = Len(lfile.items)
    /\ lpc' = "returned"
    /\ lresult' = OkResult(ltable)
    /\ UNCHANGED <<lfile, lpos, ltable>>
    /\ UNCHANGED mvars

\* The whole call, as main makes it on line 79.
RECURSIVE LoadFrom(_, _, _)
LoadFrom(items, pos, t) ==
    IF pos = Len(items) THEN OkResult(t)
    ELSE LET item == items[pos + 1] IN
         IF ~item.ok THEN ErrResult("IOError")
         ELSE LET r == LabelStep(t, item.line) IN
              IF r.err THEN ErrResult("InvalidLabel")
              ELSE LoadFrom(items, pos + 1, r.table)

LoadLabels(file) ==
    IF ~file.opens THEN ErrResult("IOError")
    ELSE LoadFrom(file.items, 0, EmptyMap)

MainIdle ==
    /\ args = [label |-> None, image |-> "-"]
    /\ model = [inputs |-> 0, info |-> None, outputs |-> 0]
    /\ pc = "idle"
    /\ exit = "running"
    /\ labels = None
    /\ size = <<0, 0>>
    /\ img = 0
    /\ classes = <<>>
    /\ scores = <<>>
    /\ count = 0
    /\ i = 0
    /\ stdout = <<>>
    /\ printed = <<>>
    /\ stdinRead = FALSE
    /\ imageOpened = FALSE
    /\ invoked = FALSE
    /\ trace = <<>>

InitLabels ==
    /\ lfile \in LabelFiles
    /\ lpc = "open"
    /\ lpos = 0
    /\ ltable = EmptyMap
    /\ lresult = Pending
    /\ MainIdle

NextLabels == Open \/ NextLine \/ Return

SpecLabels == InitLabels /\ [][NextLabels]_vars

LoaderIdle ==
    /\ lfile = [opens |-> FALSE, items |-> <<>>]
    /\ lpc = "idle"
    /\ lpos = 0
    /\ ltable = EmptyMap
    /\ lresult = Pending

\* ------------------------------------------------------------------ main

\* const THRESHOLD: f32 = 0.5, in tenths.
THRESHOLD == 5

\* `x as usize`: towards zero, saturating at the ends, NaN to 0.  UsizeMax
\* stands for 2^64 - 1: above the length of every array there can be.
UsizeMax == 2^30 + (2^30 - 1)
F32AsUsize(x) ==
    CASE x.k = "nan" -> 0
      [] x.k = "inf" -> IF x.v > 0 THEN UsizeMax ELSE 0
      [] OTHER -> IF x.v < 0 THEN 0 ELSE x.v \div 10

\* The label files main is run with: one that does not open, one whose second
\* line has a malformed key, one that loads.
ArgLabelFiles == {
    [opens |-> FALSE, items |-> <<>>],
    [opens |-> TRUE, items |-> <<Line(<<"5", " ", "c", "a", "t">>),
                                 Line(<<"x", " ", "c", "a", "t">>)>>],
    [opens |-> TRUE, items |-> <<Line(<<"5", " ", "c", "a", "t">>),
                                 Line(<<"c", "a", "t">>)>>] }

ArgSets ==
    [label : {None} \cup {Some(f) : f \in ArgLabelFiles}, image : {"-", "file"}]

\* What the engine makes of the model file: the number of input and output
\* tensors and the tensor_info of the first input (its dims).
ModelDims == {<<1>>, <<1, 1, 2, 3>>, <<1, 2, 2, 1>>}
Models ==
    [inputs : {0}, info : {None}, outputs : 0..4]
    \cup [inputs : {1}, info : {None} \cup {Some(d) : d \in ModelDims}, outputs : 0..4]

ScoreVals == {F(3), F(5), F(9), NaN}
ClassVals == {F(57), F(90), NaN, Inf}
CountVals == {NaN, F(-10), F(9), F(10), F(25), F(40)}

RECURSIVE Product(_)
Product(s) == IF s = <<>> THEN 1 ELSE Head(s) * Product(Tail(s))

Init ==
    /\ LoaderIdle
    /\ args \in ArgSets
    /\ model \in Models
    /\ pc = "labels"
    /\ exit = "running"
    /\ labels = None
    /\ size = <<0, 0>>
    /\ img = 0
    /\ classes = <<>>
    /\ scores = <<>>
    /\ count = 0
    /\ i = 0
    /\ stdout = <<>>
    /\ printed = <<>>
    /\ stdinRead = FALSE
    /\ imageOpened = FALSE
    /\ invoked = FALSE
    /\ trace = <<>>

\* A stage begins: main is at it and has not returned.
At(stage) ==
    /\ pc = stage
    /\ exit = "running"
    /\ trace' = Append(trace, stage)
    /\ UNCHANGED <<args, model>>
    /\ UNCHANGED lvars

\* main returns Err(kind) through `?`, or unwinds with a panic.
Ends(kind) ==
    /\ pc' = "done"
    /\ exit' = kind

Goes(stage) ==
    /\ pc' = stage
    /\ exit' = exit

\* The process's exit status: 0 for Ok(()), 1 for an Err, 101 for a panic.
ExitStatus(e) == CASE e = "Ok" -> 0 [] e = "panic" -> 101 [] OTHER -> 1

\* line 79: args.label.and_then(|path| load_labels(path).ok())
LabelsOf(a) ==
    IF ~a.label.some THEN None
    ELSE LET r == LoadLabels(a.label.val) IN
         IF r.kind = "Ok" THEN Some(r.table) ELSE None

\* Line 79 with load_labels(path)? in place of .ok(): a failed load ends main.
LabelStagePropagates ==
    /\ At("labels")
    /\ IF args.label.some /\ LoadLabels(args.label.val).kind # "Ok"
       THEN Ends(LoadLabels(args.label.val).kind) /\ labels' = labels
       ELSE Goes("model") /\ labels' = LabelsOf(args)
    /\ UNCHANGED <<size, img, classes, scores, count, i, stdout, printed,
                   stdinRead, imageOpened, invoked>>

LabelStage ==
    /\ At("labels")
    /\ labels' = LabelsOf(args)
    /\ Goes("model")
    /\ UNCHANGED <<size, img, classes, scores, count, i, stdout, printed,
                   stdinRead, imageOpened, invoked>>

\* A call into the engine that returns tflite::Result: Ok, or an Err that
\* From turns into Error::TFLiteError.
EngineCall(stage, next) ==
    /\ At(stage)
    /\ \/ Goes(next)
       \/ Ends("TFLiteError")

\* line 81: FlatBufferModel::build_from_file
BuildFromFile ==
    /\ EngineCall("model", "builder")
    /\ UNCHANGED <<labels, size, img, classes, scores, count, i, stdout, printed,
                   stdinRead, imageOpened, invoked>>

\* lines 82-83: InterpreterBuilder::new
NewBuilder ==
    /\ EngineCall("builder", "build")
    /\ UNCHANGED <<labels, size, img, classes, scores, count, i, stdout, printed,
                   stdinRead, imageOpened, invoked>>

\* line 84: builder.build()
Build ==
    /\ EngineCall("build", "alloc")
    /\ UNCHANGED <<labels, size, img, classes, scores, count, i, stdout, printed,
                   stdinRead, imageOpened, invoked>>

\* line 85: interpreter.allocate_tensors()
AllocateTensors ==
    /\ EngineCall("alloc", "shape")
    /\ UNCHANGED <<labels, size, img, classes, scores, count, i, stdout, printed,
                   stdinRead, imageOpened, invoked>>

\* Lines 87-91 with tensor_info(..).unwrap() in place of ok_or(..)?.
ShapeLookupUnwraps ==
    /\ At("shape")
    /\ IF model.inputs = 0 \/ ~model.info.some \/ Len(model.info.val) < 3
       THEN Ends("panic") /\ size' = size
       ELSE Goes("image") /\ size' = <<model.info.val[3], model.info.val[2]>>
    /\ UNCHANGED <<labels, img, classes, scores, count, i, stdout, printed,
                   stdinRead, imageOpened, invoked>>

\* lines 87-91: inputs[0], tensor_info(..).ok_or(InvalidModel)?, dims[1], dims[2]
ShapeLookup ==
    /\ At("shape")
    /\ IF model.inputs = 0
       THEN Ends("panic") /\ size' = size
       ELSE IF ~model.info.some
       THEN Ends("InvalidModel") /\ size' = size
       ELSE IF Len(model.info.val) < 3
       THEN Ends("panic") /\ size' = size
       ELSE Goes("image") /\ size' = <<model.info.val[3], model.info.val[2]>>
    /\ UNCHANGED <<labels, img, classes, scores, count, i, stdout, printed,
                   stdinRead, imageOpened, invoked>>

\* lines 93-100: read standard input or open the file, decode, resize_exact
\* to the input size, to_rgb8.
AcquireImage ==
    /\ At("image")
    /\ IF args.image = "-"
       THEN /\ stdinRead' = TRUE
            /\ imageOpened' = imageOpened
            /\ \/ Ends("IOError") /\ img' = img
               \/ Ends("ImageError") /\ img' = img
               \/ Goes("copy") /\ img' = size[1] * size[2] * 3
       ELSE /\ imageOpened' = TRUE
            /\ stdinRead' = stdinRead
            /\ \/ Ends("ImageError") /\ img' = img
               \/ Goes("copy") /\ img' = size[1] * size[2] * 3
    /\ UNCHANGED <<labels, size, classes, scores, count, i, stdout, printed, invoked>>

\* line 102: tensor_data_mut(inputs[0])?.copy_from_slice(&img), which panics
\* when the two lengths differ.
CopyInput ==
    /\ At("copy")
    /\ \/ Ends("TFLiteError")
       \/ IF Product(model.info.val) = img THEN Goes("invoke") ELSE Ends("panic")
    /\ UNCHANGED <<labels, size, img, classes, scores, count, i, stdout, printed,
                   stdinRead, imageOpened, invoked>>

\* line 103: interpreter.invoke()
Invoke ==
    /\ EngineCall("invoke", "classes")
    /\ invoked' = TRUE
    /\ UNCHANGED <<labels, size, img, classes, scores, count, i, stdout, printed,
                   stdinRead, imageOpened>>

\* line 106: tensor_data(outputs[1])
ReadClasses ==
    /\ At("classes")
    /\ IF model.outputs < 2
       THEN Ends("panic") /\ classes' = classes
       ELSE \/ Ends("TFLiteError") /\ classes' = classes
            \/ Goes("scores") /\ classes' \in SeqsUpTo(ClassVals, MaxDet)
    /\ UNCHANGED <<labels, size, img, scores, count, i, stdout, printed,
                   stdinRead, imageOpened, invoked>>

\* line 107: tensor_data(outputs[2])
ReadScores ==
    /\ At("scores")
    /\ IF model.outputs < 3
       THEN Ends("panic") /\ scores' = scores
       ELSE \/ Ends("TFLiteError") /\ scores' = scores
            \/ Goes("count") /\ scores' \in SeqsUpTo(ScoreVals, MaxDet)
    /\ UNCHANGED <<labels, size, img, classes, count, i, stdout, printed,
                   stdinRead, imageOpened, invoked>>

\* line 108: tensor_data::<f32>(outputs[3])?[0] as usize
ReadCount ==
    /\ At("count")
    /\ IF model.outputs < 4
       THEN Ends("panic") /\ count' = count
       ELSE \/ Ends("TFLiteError") /\ count' = count
            \/ Ends("panic") /\ count' = count
            \/ \E c \in CountVals : Goes("report") /\ count' = F32AsUsize(c)
    /\ UNCHANGED <<labels, size, img, classes, scores, i, stdout, printed,
                   stdinRead, imageOpened, invoked>>

\* Lines 113-115 with the table lookup left out.
KlassNameIgnoresTable(lbls, x) == ToString(F32AsU32(x))

\* lines 113-115: the name printed for a class-id float.
KlassName(lbls, x) ==
    LET klass == F32AsU32(x)
        klass_id == ToString(klass) IN
    IF lbls.some /\ klass \in DOMAIN lbls.val THEN lbls.val[klass] ELSE klass_id

\* line 112: the test a detection passes to be printed.
Passes(score) == Ge(score, THRESHOLD)

\* lines 111-119: one round of the for loop, at index i (0-based; the
\* sequences here are 1-based).  An index past the end of a slice panics.
ReportStep ==
    /\ pc = "report"
    /\ exit = "running"
    /\ i < count
    /\ trace' = IF i = 0 THEN Append(trace, "report") ELSE trace
    /\ IF i + 1 > Len(scores)
       THEN Ends("panic") /\ UNCHANGED <<i, stdout, printed>>
       ELSE IF ~Passes(scores[i + 1])
       THEN Goes("report") /\ i' = i + 1 /\ UNCHANGED <<stdout, printed>>
       ELSE IF i + 1 > Len(classes)
       THEN Ends("panic") /\ UNCHANGED <<i, stdout, printed>>
       ELSE /\ Goes("report")
            /\ i' = i + 1
            /\ stdout' = Append(stdout, [klass |-> KlassName(labels, classes[i + 1]),
                                         score |-> scores[i + 1]])
            /\ printed' = Append(printed, i)
    /\ UNCHANGED <<args, model, labels, size, img, classes, scores, count,
                   stdinRead, imageOpened, invoked>>
    /\ UNCHANGED lvars

\* line 121: the loop is over, Ok(()).
Finish ==
    /\ pc = "report"
    /\ exit = "running"
    /\ i >= count
    /\ trace' = IF i = 0 THEN Append(trace, "report") ELSE trace
    /\ Ends("Ok")
    /\ UNCHANGED <<args, model, labels, size, img, classes, scores, count, i,
                   stdout, printed, stdinRead, imageOpened, invoked>>
    /\ UNCHANGED lvars

Next ==
    \/ LabelStage
    \/ BuildFromFile
    \/ NewBuilder
    \/ Build
    \/ AllocateTensors
    \/ ShapeLookup
    \/ AcquireImage
    \/ CopyInput
    \/ Invoke
    \/ ReadClasses
    \/ ReadScores
    \/ ReadCount
    \/ ReportStep
    \/ Finish

Spec == Init /\ [][Next]_vars

\* ----------------------------------------------------------- properties

Stages == <<"labels", "model", "builder", "build", "alloc", "shape", "image",
            "copy", "invoke", "classes", "scores", "count", "report">>

Ran(stage) == \E k \in 1..Len(trace) : trace[k] = stage

Min(a, b) == IF a <= b THEN a ELSE b

\* A score of at least 0.5.
AtLeastHalf(x) == (x.k = "num" /\ x.v >= 5) \/ (x.k = "inf" /\ x.v > 0)

\* The indices below n, in ascending order, whose score is at least 0.5.
RECURSIVE PassingBelow(_)
PassingBelow(n) ==
    IF n = 0 THEN <<>>
    ELSE IF AtLeastHalf(scores[n]) THEN Append(PassingBelow(n - 1), n - 1)
    ELSE PassingBelow(n - 1)

\* C1: once the reporter has run to its end, the lines on standard output
\* are exactly one per index i, ascending, with 0 <= i < count and
\* scores[i] >= 0.5, each carrying that score; none when no index passes.
C1_ExactlyThePassingLines ==
    (pc = "done" /\ Ran("report")) =>
        /\ printed = PassingBelow(Min(count, Len(scores)))
        /\ Len(stdout) = Len(printed)
        /\ \A k \in 1..Len(printed) : stdout[k].score = scores[printed[k] + 1]

\* The label table main works with: loaded only when a label file was named
\* and its load succeeded.
TableLoaded == args.label.some /\ LoadLabels(args.label.val).kind = "Ok"

\* C2: every printed line names its detection by the label table's string for
\* the class id (the float truncated to a u32) when a table is loaded and
\* holds that id, and by the id's decimal text in every other case.
C2_PrintedName ==
    \A k \in 1..Len(stdout) :
        LET x == classes[printed[k] + 1]
            id == F32AsU32(x)
            name == stdout[k].klass IN
        /\ name = IF TableLoaded /\ id \in DOMAIN LoadLabels(args.label.val).table
                  THEN LoadLabels(args.label.val).table[id]
                  ELSE ToString(id)
        /\ (x = F(57) /\ TableLoaded) => name = <<"c", "a", "t">>
        /\ (x = F(57) /\ ~TableLoaded) => name = <<"5">>
        /\ x = F(90) => name = <<"9">>
        /\ x = NaN => name = <<"0">>
        /\ x = Inf => name = <<"4", "2", "9", "4", "9", "6", "7", "2", "9", "5">>

C2_Witness ==
    \E k \in 1..Len(stdout) :
        /\ stdout[k].klass = <<"c", "a", "t">>
        /\ classes[printed[k] + 1] = F(57)
        /\ \E m \in 1..Len(stdout) : stdout[m].klass = <<"9">>

\* C3: a label argument that is absent, or whose load fails, leaves main
\* without a table and running: the stage after it is the model load, no run
\* ends with InvalidLabel, and an IOError end comes from standard input only.
C3_LabelFailureIsNotFatal ==
    /\ (Ran("labels") /\ ~TableLoaded) => labels = None
    /\ (Ran("labels") /\ Len(trace) = 1) => (exit = "running" /\ pc = "model")
    /\ exit # "InvalidLabel"
    /\ exit = "IOError" => stdinRead

C3_Witness ==
    /\ args.label.some
    /\ LoadLabels(args.label.val).kind = "InvalidLabel"
    /\ labels = None
    /\ exit = "Ok"
    /\ Len(stdout) = 2

\* The part of a line before its first whitespace character, and whether
\* all that follows that character is whitespace.
HasWhitespace(line) == \E k \in 1..Len(line) : IsWhitespace(line[k])
FirstWhitespace(line) ==
    CHOOSE k \in 1..Len(line) :
        IsWhitespace(line[k]) /\ \A m \in 1..(k - 1) : ~IsWhitespace(line[m])
KeyToken(line) == SubSeq(line, 1, FirstWhitespace(line) - 1)
ValueIsBlank(line) ==
    \A m \in (FirstWhitespace(line) + 1)..Len(line) : IsWhitespace(line[m])

\* The loop is about to take an Ok line from the file.
TakingLine == lpc = "lines" /\ lpos < Len(lfile.items) /\ lfile.items[lpos + 1].ok
TakenLine == lfile.items[lpos + 1].line

\* The round leaves the table as it was and the load going.
RoundIgnoresLine == ltable' = ltable /\ lpc' = "lines" /\ lresult' = lresult

\* C4 as stated: a line without whitespace, and a line whose value trims to
\* empty whatever its key token, is ignored: table unchanged, load goes on.
C4_IgnoredWhateverTheKey ==
    [][(TakingLine /\ (~HasWhitespace(TakenLine) \/ ValueIsBlank(TakenLine)))
         => RoundIgnoresLine]_vars

\* C4, amended: a line without whitespace is ignored; a line whose value
\* trims to empty is ignored when its key token parses as a u32.
C4_IgnoredLines ==
    [][(TakingLine /\ (\/ ~HasWhitespace(TakenLine)
                       \/ /\ ValueIsBlank(TakenLine)
                          /\ ParseU32(KeyToken(TakenLine)).some))
         => RoundIgnoresLine]_vars

C4_Witness ==
    /\ lpc = "lines"
    /\ lpos = 3
    /\ lfile.items[1] = Line(<<"5", " ", "c", "a", "t">>)
    /\ lfile.items[2] = Line(<<"5", " ">>)
    /\ lfile.items[3] = Line(<<"c", "a", "t">>)
    /\ ltable = Insert(EmptyMap, U32(5), <<"c", "a", "t">>)

\* Line j of the file inserts: it has whitespace, its key token parses and
\* its value does not trim to empty.
Inserts(j) ==
    LET line == lfile.items[j].line IN
    /\ lfile.items[j].ok
    /\ HasWhitespace(line)
    /\ ParseU32(KeyToken(line)).some
    /\ ~ValueIsBlank(line)
KeyOf(j) == ParseU32(KeyToken(lfile.items[j].line)).val
ValueOf(j) ==
    LET line == lfile.items[j].line IN
    Trim(SubSeq(line, FirstWhitespace(line) + 1, Len(line)))

\* C5: after a successful load the table's keys are those of the inserting
\* lines, the value of a key is the trimmed value of the last line that
\* inserted it, and every value is non-empty with no whitespace at its ends.
C5_LastInsertWins ==
    lresult.kind = "Ok" =>
        LET t == lresult.table
            n == Len(lfile.items) IN
        /\ DOMAIN t = {KeyOf(j) : j \in {m \in 1..n : Inserts(m)}}
        /\ \A j \in 1..n :
               (Inserts(j) /\ \A m \in (j + 1)..n : ~(Inserts(m) /\ KeyOf(m) = KeyOf(j)))
                   => t[KeyOf(j)] = ValueOf(j)
        /\ \A key \in DOMAIN t :
               /\ t[key] # <<>>
               /\ ~IsWhitespace(t[key][1])
               /\ ~IsWhitespace(t[key][Len(t[key])])

C5_Witness ==
    /\ lresult.kind = "Ok"
    /\ lfile.items = <<Line(<<"5", " ", "c", "a", "t">>),
                       Line(<<"+", "9", " ", "a", " ", "b">>),
                       Line(<<"5", " ", " ", "o", "x", " ">>)>>
    /\ DOMAIN lresult.table = {U32(5), U32(9)}
    /\ lresult.table[U32(5)] = <<"o", "x">>
    /\ lresult.table[U32(9)] = <<"a", " ", "b">>

\* Line j has whitespace and a key token that is no u32.
Malformed(j) ==
    LET line == lfile.items[j].line IN
    /\ lfile.items[j].ok
    /\ HasWhitespace(line)
    /\ ~ParseU32(KeyToken(line)).some

\* C6: once the loop takes a line with whitespace whose key token does not
\* parse, the load has failed with InvalidLabel, it returns no table, and no
\* later line is taken.
C6_MalformedKeyFailsTheLoad ==
    \A j \in 1..Len(lfile.items) :
        (Malformed(j) /\ lpos >= j) =>
            /\ lpos = j
            /\ lpc = "returned"
            /\ lresult.kind = "InvalidLabel"
            /\ lresult.table = EmptyMap

C6_Witness ==
    /\ lresult.kind = "InvalidLabel"
    /\ lpos = 2
    /\ Len(lfile.items) = 3
    /\ Inserts(1)
    /\ Malformed(2)
    /\ Inserts(3)

\* C7: when the first input tensor has no tensor_info, the run ends with
\* InvalidModel and a non-zero status at the shape lookup, before standard
\* input is read, an image file opened, the model invoked or a line printed.
C7_InvalidModelBeforeImage ==
    /\ (model.inputs > 0 /\ ~model.info.some /\ Ran("shape")) =>
           (pc = "done" /\ exit = "InvalidModel" /\ trace[Len(trace)] = "shape")
    /\ exit = "InvalidModel" =>
           /\ ExitStatus(exit) # 0
           /\ ~stdinRead
           /\ ~imageOpened
           /\ ~invoked
           /\ stdout = <<>>
           /\ ~Ran("image")

C7_Witness ==
    /\ exit = "InvalidModel"
    /\ model.inputs = 1
    /\ ~model.info.some
    /\ args.image = "file"

\* C8: a session with no input tensor, or with fewer than four output
\* tensors, ends the run with InvalidModel at the stage that needs the
\* missing tensor.
C8_MissingTensorsAreInvalidModel ==
    /\ (model.inputs = 0 /\ Ran("shape")) => exit = "InvalidModel"
    /\ (model.outputs < 4 /\ Ran("count")) => exit = "InvalidModel"

\* C9: the stages run in their one order, a run that ends in failure has
\* printed nothing, and a run that printed ends with status 0.
C9_LinearNoPartialResult ==
    /\ Len(trace) <= Len(Stages)
    /\ \A k \in 1..Len(trace) : trace[k] = Stages[k]
    /\ (pc = "done" /\ ExitStatus(exit) # 0) => stdout = <<>>
    /\ (pc = "done" /\ stdout # <<>>) => ExitStatus(exit) = 0

\* C10: the reporter loop never indexes scores or classes past their end, so
\* it runs to its end whatever the count and the array lengths are.
C10_LoopStaysInBounds ==
    /\ Ran("report") => exit # "panic"
    /\ (pc = "done" /\ Ran("report")) => (exit = "Ok" /\ i = count)

====
